---- MODULE Spec2Model ----
(***************************************************************************)
(* Model of GcpPubSubSourceStatus (gcp_pubsub_types.go): the status        *)
(* object, its condition list, the resolved sink / transformer URIs and    *)
(* the public mutators that delegate to the living condition set.          *)
(*                                                                         *)
(* The condition manager (knative.dev/pkg/apis/duck/v1alpha1) is not part  *)
(* of the sources at hand; its operations (Cond* below, Sprintf) follow    *)
(* the contract of section 4.1 of the specification.                       *)
(***************************************************************************)
EXTENDS Integers, Sequences, FiniteSets, TLC

\* ---------------------------------------------------------------- bounds
\* Number of mutator calls explored (each call reads a fresh time.Now()).
MaxCalls == 4

\* ------------------------------------------------------- condition types
GcpPubSubConditionSinkProvided == "SinkProvided"
GcpPubSubConditionTransformerProvided == "TransformerProvided"
GcpPubSubConditionDeployed == "Deployed"
GcpPubSubConditionSubscribed == "Subscribed"
GcpPubSubConditionEventTypesProvided == "EventTypesProvided"

CondTypes ==
  { GcpPubSubConditionSinkProvided, GcpPubSubConditionTransformerProvided,
    GcpPubSubConditionDeployed, GcpPubSubConditionSubscribed,
    GcpPubSubConditionEventTypesProvided }

\* Variants of the required set: one condition dropped, or an informational
\* condition added.
gcpPubSubSourceCondSet_NoSubscribed ==
  { GcpPubSubConditionSinkProvided, GcpPubSubConditionDeployed }

gcpPubSubSourceCondSet_WithEventTypes ==
  { GcpPubSubConditionSinkProvided, GcpPubSubConditionDeployed,
    GcpPubSubConditionSubscribed, GcpPubSubConditionEventTypesProvided }

gcpPubSubSourceCondSet_WithTransformer ==
  { GcpPubSubConditionSinkProvided, GcpPubSubConditionDeployed,
    GcpPubSubConditionSubscribed, GcpPubSubConditionTransformerProvided }

\* The required ("happy") set handed to NewLivingConditionSet.
gcpPubSubSourceCondSet ==
  { GcpPubSubConditionSinkProvided, GcpPubSubConditionDeployed,
    GcpPubSubConditionSubscribed }

\* ------------------------------------------------------------ input sets
URIs == { "", "http://x", "http://y" }
Reasons == { "NotFound" }
\* A message format is a sequence of pieces; "%s" is a verb.
MessageFormats == { <<"failed">>, <<"failed: ", "%s">> }
MessageArgs == { <<>>, <<"e">> }

\* -------------------------------------------------- condition manager
\* GetCondition's "nil": no condition of that type in the list.
NoCond == [present |-> FALSE]

Condition(st, reason, message, t) ==
  [present |-> TRUE, status |-> st, reason |-> reason, message |-> message,
   time |-> t]

\* fmt.Sprintf restricted to the %s verb: every verb consumes one argument,
\* a verb without argument prints %!s(MISSING), arguments left over are
\* reported at the end.
RECURSIVE SprintfFrom(_, _)
SprintfFrom(format, args) ==
  IF format = <<>>
    THEN IF args = <<>> THEN <<>> ELSE <<"%!(EXTRA)">> \o args
    ELSE IF Head(format) = "%s"
      THEN IF args = <<>>
             THEN <<"%!s(MISSING)">> \o SprintfFrom(Tail(format), args)
             ELSE <<Head(args)>> \o SprintfFrom(Tail(format), Tail(args))
      ELSE <<Head(format)>> \o SprintfFrom(Tail(format), args)

Sprintf(format, args) == SprintfFrom(format, args)

CondGet(s, T) == s.conds[T]

\* The transition time is rewritten only when the condition differs from
\* the stored one in anything but the time.
CondSet(s, T, st, reason, message, t) ==
  LET old == s.conds[T]
      same == /\ old.present
              /\ old.status = st
              /\ old.reason = reason
              /\ old.message = message
  IN IF same THEN s
     ELSE [s EXCEPT !.conds[T] = Condition(st, reason, message, t)]

CondMarkTrue(s, T, t) == CondSet(s, T, "True", "", <<>>, t)

CondMarkFalse(s, T, reason, format, args, t) ==
  CondSet(s, T, "False", reason, Sprintf(format, args), t)

CondMarkUnknown(s, T, reason, format, args, t) ==
  CondSet(s, T, "Unknown", reason, Sprintf(format, args), t)

RECURSIVE CondInitializeFrom(_, _, _)
CondInitializeFrom(s, required, t) ==
  IF required = {} THEN s
  ELSE LET T == CHOOSE x \in required : TRUE
           s1 == IF s.conds[T].present THEN s
                 ELSE CondSet(s, T, "Unknown", "", <<>>, t)
       IN CondInitializeFrom(s1, required \ {T}, t)

CondIsHappy(s, required) ==
  \A T \in required : s.conds[T].present /\ s.conds[T].status = "True"

\* ------------------------------------------------ GcpPubSubSourceStatus
GetCondition(s, T) == CondGet(s, T)

IsReady(s) == CondIsHappy(s, gcpPubSubSourceCondSet)

\* Variant: no condition is initialized.
InitializeConditions_Nothing(s, t) == s

\* Variant: every required condition is reset to Unknown, set or not.
InitializeConditions_Reset(s, t) ==
  [s EXCEPT !.conds = [T \in CondTypes |->
     IF T \in gcpPubSubSourceCondSet
       THEN Condition("Unknown", "", <<>>, t) ELSE s.conds[T]]]

InitializeConditions(s, t) == CondInitializeFrom(s, gcpPubSubSourceCondSet, t)

\* Variant: the condition is marked True whatever the URI.
MarkSink_AlwaysTrue(s, uri, t) ==
  CondMarkTrue([s EXCEPT !.SinkURI = uri], GcpPubSubConditionSinkProvided, t)

\* Variant: the URI is not stored.
MarkSink_NoURI(s, uri, t) ==
  IF uri # ""
    THEN CondMarkTrue(s, GcpPubSubConditionSinkProvided, t)
    ELSE CondMarkUnknown(s, GcpPubSubConditionSinkProvided, "SinkEmpty",
                         <<"Sink has resolved to empty.">>, <<>>, t)

MarkSink(s, uri, t) ==
  LET s1 == [s EXCEPT !.SinkURI = uri]
  IN IF uri # ""
       THEN CondMarkTrue(s1, GcpPubSubConditionSinkProvided, t)
       ELSE CondMarkUnknown(s1, GcpPubSubConditionSinkProvided, "SinkEmpty",
                            <<"Sink has resolved to empty.">>, <<>>, t)

\* Variant: the URI is not stored.
MarkTransformer_NoURI(s, uri, t) ==
  IF uri # ""
    THEN CondMarkTrue(s, GcpPubSubConditionTransformerProvided, t)
    ELSE CondMarkUnknown(s, GcpPubSubConditionTransformerProvided,
                         "TransformerEmpty",
                         <<"Transformer has resolved to empty.">>, <<>>, t)

MarkTransformer(s, uri, t) ==
  LET s1 == [s EXCEPT !.TransformerURI = uri]
  IN IF uri # ""
       THEN CondMarkTrue(s1, GcpPubSubConditionTransformerProvided, t)
       ELSE CondMarkUnknown(s1, GcpPubSubConditionTransformerProvided,
                            "TransformerEmpty",
                            <<"Transformer has resolved to empty.">>, <<>>, t)

MarkNoSink(s, reason, format, args, t) ==
  CondMarkFalse(s, GcpPubSubConditionSinkProvided, reason, format, args, t)

MarkNoTransformer(s, reason, format, args, t) ==
  CondMarkFalse(s, GcpPubSubConditionTransformerProvided, reason, format, args, t)

\* Variant: the condition is rewritten, transition time included, on every call.
MarkDeployed_Touch(s, t) ==
  [s EXCEPT !.conds[GcpPubSubConditionDeployed] = Condition("True", "", <<>>, t)]

MarkDeployed(s, t) == CondMarkTrue(s, GcpPubSubConditionDeployed, t)

\* Variant: the call is lost.
MarkDeploying_Lost(s, reason, format, args, t) == s

MarkDeploying(s, reason, format, args, t) ==
  CondMarkUnknown(s, GcpPubSubConditionDeployed, reason, format, args, t)

MarkNotDeployed(s, reason, format, args, t) ==
  CondMarkFalse(s, GcpPubSubConditionDeployed, reason, format, args, t)

MarkSubscribed(s, t) == CondMarkTrue(s, GcpPubSubConditionSubscribed, t)

MarkEventTypes(s, t) == CondMarkTrue(s, GcpPubSubConditionEventTypesProvided, t)

MarkNoEventTypes(s, reason, format, args, t) ==
  CondMarkFalse(s, GcpPubSubConditionEventTypesProvided, reason, format, args, t)

\* ----------------------------------------------------------------- state
VARIABLES
  status,   \* the GcpPubSubSourceStatus owned by the caller
  now,      \* the value the next time.Now() returns
  last,     \* the mutator called last, with its URI argument
  pre,      \* the status as it was before that call
  marked    \* required conditions whose latest mark call was a mark-true

vars == <<status, now, last, pre, marked>>

FreshStatus ==
  [conds |-> [T \in CondTypes |-> NoCond], SinkURI |-> "", TransformerURI |-> ""]

Init ==
  /\ status = FreshStatus
  /\ now = 1
  /\ last = [op |-> "none", uri |-> ""]
  /\ pre = FreshStatus
  /\ marked = {}

\* One call of a mutator: the status is replaced by the mutator's result.
Call(op, uri, result, m) ==
  /\ now <= MaxCalls
  /\ status' = result
  /\ now' = now + 1
  /\ last' = [op |-> op, uri |-> uri]
  /\ pre' = status
  /\ marked' = m

CallInitializeConditions ==
  Call("InitializeConditions", "", InitializeConditions(status, now), marked)

CallMarkSink ==
  \E uri \in URIs :
    Call("MarkSink", uri, MarkSink(status, uri, now),
         IF uri # "" THEN marked \cup {GcpPubSubConditionSinkProvided}
                     ELSE marked \ {GcpPubSubConditionSinkProvided})

CallMarkTransformer ==
  \E uri \in URIs :
    Call("MarkTransformer", uri, MarkTransformer(status, uri, now), marked)

CallMarkNoSink ==
  \E r \in Reasons, f \in MessageFormats, a \in MessageArgs :
    Call("MarkNoSink", "", MarkNoSink(status, r, f, a, now),
         marked \ {GcpPubSubConditionSinkProvided})

CallMarkNoTransformer ==
  \E r \in Reasons, f \in MessageFormats, a \in MessageArgs :
    Call("MarkNoTransformer", "", MarkNoTransformer(status, r, f, a, now), marked)

CallMarkDeployed ==
  Call("MarkDeployed", "", MarkDeployed(status, now),
       marked \cup {GcpPubSubConditionDeployed})

CallMarkDeploying ==
  \E r \in Reasons, f \in MessageFormats, a \in MessageArgs :
    Call("MarkDeploying", "", MarkDeploying(status, r, f, a, now),
         marked \ {GcpPubSubConditionDeployed})

CallMarkNotDeployed ==
  \E r \in Reasons, f \in MessageFormats, a \in MessageArgs :
    Call("MarkNotDeployed", "", MarkNotDeployed(status, r, f, a, now),
         marked \ {GcpPubSubConditionDeployed})

CallMarkSubscribed ==
  Call("MarkSubscribed", "", MarkSubscribed(status, now),
       marked \cup {GcpPubSubConditionSubscribed})

CallMarkEventTypes ==
  Call("MarkEventTypes", "", MarkEventTypes(status, now), marked)

CallMarkNoEventTypes ==
  \E r \in Reasons, f \in MessageFormats, a \in MessageArgs :
    Call("MarkNoEventTypes", "", MarkNoEventTypes(status, r, f, a, now), marked)

Next ==
  \/ CallInitializeConditions
  \/ CallMarkSink
  \/ CallMarkTransformer
  \/ CallMarkNoSink
  \/ CallMarkNoTransformer
  \/ CallMarkDeployed
  \/ CallMarkDeploying
  \/ CallMarkNotDeployed
  \/ CallMarkSubscribed
  \/ CallMarkEventTypes
  \/ CallMarkNoEventTypes

Spec == Init /\ [][Next]_vars

\* ------------------------------------------------------------ properties
IsTrue(s, T) == s.conds[T].present /\ s.conds[T].status = "True"
IsFalse(s, T) == s.conds[T].present /\ s.conds[T].status = "False"
IsUnknown(s, T) == s.conds[T].present /\ s.conds[T].status = "Unknown"

\* C1: IsReady() is true exactly when SinkProvided, Deployed and Subscribed
\* are all present with status True.
C1_ReadyIffRequiredTrue ==
  IsReady(status) <=>
    /\ IsTrue(status, "SinkProvided")
    /\ IsTrue(status, "Deployed")
    /\ IsTrue(status, "Subscribed")

C1_Witness ==
  /\ IsReady(status)
  /\ IsTrue(status, "SinkProvided")
  /\ IsTrue(status, "Deployed")
  /\ IsTrue(status, "Subscribed")
  /\ ~IsReady(pre)

\* C2: when the latest mark call of each of the three required conditions is
\* a mark-true (MarkSink with a non-empty URI, MarkDeployed, MarkSubscribed),
\* IsReady() is true; and one call of MarkNoSink, MarkNotDeployed,
\* MarkSink("") or MarkDeploying on a ready status makes IsReady() false.
C2_MarkAllReadyThenUnmark ==
  /\ marked = {"SinkProvided", "Deployed", "Subscribed"} => IsReady(status)
  /\ ( /\ IsReady(pre)
       /\ \/ last.op \in {"MarkNoSink", "MarkNotDeployed", "MarkDeploying"}
          \/ last.op = "MarkSink" /\ last.uri = "" )
     => ~IsReady(status)

C2_Witness ==
  /\ IsReady(pre)
  /\ last.op = "MarkDeploying"
  /\ ~IsReady(status)
  /\ marked = {"SinkProvided", "Subscribed"}

\* C3: MarkEventTypes and MarkNoEventTypes leave the value of IsReady() as it
\* was before the call.
C3_EventTypesKeepReady ==
  last.op \in {"MarkEventTypes", "MarkNoEventTypes"} =>
    (IsReady(status) <=> IsReady(pre))

C3_Witness ==
  /\ last.op = "MarkNoEventTypes"
  /\ IsReady(pre)
  /\ IsReady(status)
  /\ IsFalse(status, "EventTypesProvided")

\* C4: MarkTransformer (True for a non-empty URI, Unknown with reason
\* "TransformerEmpty" for the empty one) and MarkNoTransformer (False) set
\* the TransformerProvided condition and leave the value of IsReady() as it
\* was before the call.
C4_TransformerKeepsReady ==
  /\ last.op \in {"MarkTransformer", "MarkNoTransformer"} =>
       (IsReady(status) <=> IsReady(pre))
  /\ (last.op = "MarkTransformer" /\ last.uri # "") =>
       IsTrue(status, "TransformerProvided")
  /\ (last.op = "MarkTransformer" /\ last.uri = "") =>
       /\ IsUnknown(status, "TransformerProvided")
       /\ status.conds["TransformerProvided"].reason = "TransformerEmpty"
  /\ last.op = "MarkNoTransformer" => IsFalse(status, "TransformerProvided")

C4_Witness ==
  /\ last.op = "MarkTransformer"
  /\ last.uri = ""
  /\ IsReady(pre)
  /\ IsReady(status)
  /\ IsUnknown(status, "TransformerProvided")

\* C5: after MarkSink("") the SinkProvided condition is Unknown with reason
\* "SinkEmpty", whatever it was before, and IsReady() is false.
C5_EmptySinkUnknown ==
  (last.op = "MarkSink" /\ last.uri = "") =>
    /\ IsUnknown(status, "SinkProvided")
    /\ status.conds["SinkProvided"].reason = "SinkEmpty"
    /\ ~IsReady(status)

C5_Witness ==
  /\ last.op = "MarkSink"
  /\ last.uri = ""
  /\ IsTrue(pre, "SinkProvided")
  /\ IsUnknown(status, "SinkProvided")

\* C6: after MarkSink(u) with u non-empty, SinkURI = u and SinkProvided is
\* True, whatever SinkProvided was before.
C6_MarkSinkStoresURI ==
  (last.op = "MarkSink" /\ last.uri # "") =>
    /\ status.SinkURI = last.uri
    /\ IsTrue(status, "SinkProvided")

C6_Witness ==
  /\ last.op = "MarkSink"
  /\ last.uri = "http://y"
  /\ IsFalse(pre, "SinkProvided")
  /\ pre.SinkURI = "http://x"
  /\ status.SinkURI = "http://y"

\* C7: after InitializeConditions on a fresh status IsReady() is false and
\* GetCondition returns an Unknown condition for each required type.
C7_InitializeFresh ==
  (last.op = "InitializeConditions" /\ pre = FreshStatus) =>
    /\ ~IsReady(status)
    /\ \A T \in {"SinkProvided", "Deployed", "Subscribed"} :
         /\ GetCondition(status, T) # NoCond
         /\ GetCondition(status, T).status = "Unknown"

C7_Witness ==
  /\ last.op = "InitializeConditions"
  /\ pre = FreshStatus
  /\ IsUnknown(status, "Subscribed")

\* C8: InitializeConditions keeps every condition that was present (status,
\* reason, message, transition time), sets exactly the absent required
\* conditions to Unknown, keeps readiness, and a second call right after it
\* changes nothing.
C8_InitializeKeepsAndIdempotent ==
  last.op = "InitializeConditions" =>
    /\ \A T \in CondTypes :
         IF pre.conds[T].present THEN status.conds[T] = pre.conds[T]
         ELSE IF T \in {"SinkProvided", "Deployed", "Subscribed"}
                THEN IsUnknown(status, T)
                ELSE ~status.conds[T].present
    /\ status.SinkURI = pre.SinkURI
    /\ status.TransformerURI = pre.TransformerURI
    /\ (IsReady(pre) => IsReady(status))
    /\ InitializeConditions(status, now) = status

C8_Witness ==
  /\ last.op = "InitializeConditions"
  /\ IsTrue(pre, "SinkProvided")
  /\ IsFalse(pre, "Deployed")
  /\ ~pre.conds["Subscribed"].present
  /\ IsTrue(status, "SinkProvided")
  /\ IsFalse(status, "Deployed")
  /\ IsUnknown(status, "Subscribed")

\* The condition a mark-true call names, "" for every other call.
MarkedTrueType ==
  CASE last.op = "MarkDeployed" -> "Deployed"
    [] last.op = "MarkSubscribed" -> "Subscribed"
    [] last.op = "MarkEventTypes" -> "EventTypesProvided"
    [] last.op = "MarkSink" /\ last.uri # "" -> "SinkProvided"
    [] last.op = "MarkTransformer" /\ last.uri # "" -> "TransformerProvided"
    [] OTHER -> ""

C9_WitnessChanged ==
  /\ last.op = "MarkDeployed"
  /\ IsFalse(pre, "Deployed")
  /\ status.conds["Deployed"].time > pre.conds["Deployed"].time

\* C10: a True SinkProvided implies a non-empty SinkURI, a True
\* TransformerProvided a non-empty TransformerURI (so IsReady() implies a
\* non-empty SinkURI); MarkNoSink and MarkNoTransformer leave the stored
\* URIs as they were.
C10_TrueImpliesURI ==
  /\ IsTrue(status, "SinkProvided") => status.SinkURI # ""
  /\ IsTrue(status, "TransformerProvided") => status.TransformerURI # ""
  /\ IsReady(status) => status.SinkURI # ""
  /\ last.op \in {"MarkNoSink", "MarkNoTransformer"} =>
       /\ status.SinkURI = pre.SinkURI
       /\ status.TransformerURI = pre.TransformerURI

\* The converse fails: a stored URI next to a False condition.
C10_Witness ==
  /\ last.op = "MarkNoSink"
  /\ status.SinkURI # ""
  /\ IsFalse(status, "SinkProvided")
  /\ IsTrue(status, "TransformerProvided")
====
